---- MODULE Spec2Model ----
(***************************************************************************)
(* A model of seqio/scripts/cache_tasks_main.py: run_pipeline plans, for   *)
(* every selected task, whether its cache is (re)computed, and builds a    *)
(* Beam pipeline whose sinks write the partition files, the info file and  *)
(* the stats file of every split, and finally the COMPLETED marker.        *)
(* The file system outlives a run; a run is planned by run_pipeline and    *)
(* then executed step by step by the Beam runner, which may abort it.      *)
(***************************************************************************)
EXTENDS Integers, Sequences, FiniteSets, Bags, TLC

\* Number of pipeline runs explored.
MaxRuns == 2

None == "None"

\* The cache_dir argument of run_pipeline, and one additional cache
\* directory (tasks_additional_cache_dirs).
OutRoot == "out"
AltRoot == "alt"
Roots == {OutRoot, AltRoot}

\* Lists of cache-discovery directories a run may be started with.
CacheDirLists ==
  {<<>>, <<OutRoot>>, <<AltRoot>>, <<OutRoot, AltRoot>>, <<AltRoot, OutRoot>>}

\* The tasks of the model, and the registries (seqio.TaskRegistry.names(),
\* in registry order) a process may be started with.
Tasks == {"a", "b", "c", "d", "n", "x", "z"}
Registries == {<<"a">>, <<"b">>, <<"x">>, <<"n", "c", "z", "d">>}

\* task.supports_caching
supports_caching(t) == t # "n"

\* task.splits
splits(t) ==
  CASE t = "a" -> <<"train", "validation">>
    [] t \in {"b", "c", "d", "n", "x"} -> <<"train">>
    [] OTHER -> <<>>
SplitSet(t) == {splits(t)[i] : i \in 1..Len(splits(t))}

\* task.source.list_shards(split), by its length
list_shards(t, s) == IF t = "b" THEN 2 ELSE 1

\* PreprocessTask.shards
shards(t, s) == 0..(list_shards(t, s) - 1)

\* task.output_features
output_features(t) == IF t = "x" THEN <<"f", "f_max">> ELSE <<"targets">>

\* A feature value as as_numpy_iterator yields it: an integer array with
\* its elements, or a scalar byte string.
Int32(v) == [dtype |-> "int32", shape |-> <<Len(v)>>, val |-> v]
Bytes == [dtype |-> "string", shape |-> <<>>, val |-> <<>>]

\* The examples _emit_examples yields for one shard: the source's records
\* of that shard after preprocess_precache.
get_dataset(t, s, i) ==
  CASE t = "b" /\ i = 0 -> << [targets |-> Int32(<<3, 1, 5>>)] >>
    [] t = "b" /\ i = 1 -> << [targets |-> Int32(<<2, 1>>)] >>
    [] t = "a" /\ s = "validation" -> << >>
    [] t = "x" -> << [f |-> Int32(<<2, 3>>), f_max |-> Int32(<<4>>)] >>
    [] OTHER -> << [targets |-> Int32(<<7, 0, 4>>)] >>

\* The max_input_examples of the runs modelled: None, which like 0 is
\* false in "if self._max_input_examples".
NoCap == 0

\* ds.repeat().take(n): n records of the stream ds, restarted when it ends;
\* repeating a stream without records yields none.
repeat_take(ds, n) ==
  IF ds = <<>> THEN <<>> ELSE [j \in 1..n |-> ds[((j - 1) % Len(ds)) + 1]]

\* read_shard with the whole cap given to each shard.
read_shard_whole_cap(ds, max_input_examples, num_shards) ==
  IF max_input_examples # NoCap
  THEN repeat_take(ds, max_input_examples)
  ELSE ds

\* The records _emit_examples reads of the stream ds of one shard.
read_shard(ds, max_input_examples, num_shards) ==
  IF max_input_examples # NoCap
  THEN repeat_take(ds, max_input_examples \div num_shards)
  ELSE ds

RECURSIVE ConcatShards(_, _, _)
ConcatShards(t, s, n) ==
  IF n = 0 THEN <<>>
  ELSE ConcatShards(t, s, n - 1)
         \o read_shard(get_dataset(t, s, n - 1), NoCap, list_shards(t, s))

\* The PCollection "examples" of a split once every shard was emitted.
examples(t, s) == ConcatShards(t, s, list_shards(t, s))

----------------------------------------------------------------------------
\* Dictionaries are functions from keys to values.
EmptyDict == [k \in {} |-> 0]

RECURSIVE SumSeq(_)
SumSeq(q) == IF q = <<>> THEN 0 ELSE Head(q) + SumSeq(Tail(q))

\* MaxSeq returning the value that arrived first.
MaxSeq_first(q) == Head(q)

RECURSIVE MaxSeq(_)
MaxSeq(q) ==
  IF Len(q) = 1 THEN Head(q)
  ELSE IF Head(q) >= MaxSeq(Tail(q)) THEN Head(q) ELSE MaxSeq(Tail(q))

\* info_features recording every feature as a scalar.
info_features_no_rank(ex) ==
  [k \in DOMAIN ex |-> [shape |-> <<>>, dtype |-> ex[k].dtype]]

\* The "features" entry of _info_dict for one example: tf.constant(v) has the
\* dtype of v, and every dimension of its shape is recorded as None.
info_features(ex) ==
  [k \in DOMAIN ex |->
     [shape |-> [d \in 1..Len(ex[k].shape) |-> None], dtype |-> ex[k].dtype]]

\* _info_dict taking the shard count from the sample instead of the
\* constructor argument.
_info_dict_len_shards(ex, num_shards) ==
  IF ex = <<>> THEN EmptyDict
  ELSE [num_shards |-> Len(ex),
        features |-> info_features(ex[1]),
        seqio_version |-> "version"]

\* _info_dict without the early return for an empty sample.
_info_dict_no_empty_case(ex, num_shards) ==
  [num_shards |-> num_shards,
   features |-> IF ex = <<>> THEN EmptyDict ELSE info_features(ex[1]),
   seqio_version |-> "version"]

\* GetInfo._info_dict: ex is the sample, a list of at most one example.
_info_dict(ex, num_shards) ==
  IF ex = <<>> THEN EmptyDict
  ELSE [num_shards |-> num_shards,
        features |-> info_features(ex[1]),
        seqio_version |-> "version"]

\* Python's str.replace: every non-overlapping occurrence of old in s,
\* found from the left, becomes new.
RECURSIVE replace(_, _, _)
replace(s, old, new) ==
  IF Len(s) < Len(old) THEN s
  ELSE IF SubSeq(s, 1, Len(old)) = old
       THEN new \o replace(SubSeq(s, Len(old) + 1, Len(s)), old, new)
       ELSE SubSeq(s, 1, 1) \o replace(SubSeq(s, 2, Len(s)), old, new)

\* The condition under which _count yields a pair for feat.
counted(ex, feat) ==
  /\ feat \in DOMAIN ex
  /\ ex[feat].shape # <<>>
  /\ ex[feat].dtype \in {"int32", "int64"}

\* GetStats._count_tokens._count: int(sum(ex[feat] > 1))
_count(ex, feat) ==
  Cardinality({j \in DOMAIN ex[feat].val : ex[feat].val[j] > 1})

\* The pairs ("<feat>_tokens", count) _count yields over all examples, as
\* the set of their positions <<example, feature>>.
token_counts(exs, feats) ==
  {jf \in (DOMAIN exs) \X {feats[j] : j \in 1..Len(feats)} :
     counted(exs[jf[1]], jf[2])}
_tokens(feat) == feat \o "_tokens"

\* The values CombinePerKey groups under key k, in some order.
RECURSIVE SetToSeq(_)
SetToSeq(S) ==
  IF S = {} THEN <<>>
  ELSE LET e == CHOOSE e \in S : TRUE IN <<e>> \o SetToSeq(S \ {e})
values_of(exs, feats, k) ==
  LET at == SetToSeq({jf \in token_counts(exs, feats) : _tokens(jf[2]) = k})
  IN [j \in 1..Len(at) |-> _count(exs[at[j][1]], at[j][2])]

\* An AssertionError raised in place of a dictionary.
AssertionError == [AssertionError |-> TRUE]

\* One round of the loop of _merge_dicts without its assert: update alone.
merged_dict_update_no_assert(merged_dict, d) ==
  IF merged_dict = AssertionError \/ d = AssertionError THEN AssertionError
  ELSE [k \in DOMAIN merged_dict \cup DOMAIN d |->
          IF k \in DOMAIN d THEN d[k] ELSE merged_dict[k]]

\* One round of the loop of _merge_dicts: the assert, then update.
merged_dict_update(merged_dict, d) ==
  IF merged_dict = AssertionError \/ d = AssertionError THEN AssertionError
  ELSE IF DOMAIN merged_dict \cap DOMAIN d # {} THEN AssertionError
  ELSE [k \in DOMAIN merged_dict \cup DOMAIN d |->
          IF k \in DOMAIN d THEN d[k] ELSE merged_dict[k]]

\* GetStats.expand._merge_dicts
RECURSIVE _merge_dicts(_)
_merge_dicts(dicts) ==
  IF dicts = <<>> THEN EmptyDict
  ELSE merged_dict_update(_merge_dicts(SubSeq(dicts, 1, Len(dicts) - 1)),
                          dicts[Len(dicts)])

\* to_dict
to_dict(k, v) == [x \in {k} |-> v]

\* The dictionaries GetStats.expand flattens: the example count, and one
\* dictionary per key of the token sums and of the renamed token maxima.
example_counts(exs) == <<to_dict("examples", Len(exs))>>
token_keys(exs, feats) ==
  SetToSeq({_tokens(jf[2]) : jf \in token_counts(exs, feats)})
total_tokens(exs, feats) ==
  LET keys == token_keys(exs, feats)
  IN [j \in 1..Len(keys) |->
        to_dict(keys[j], SumSeq(values_of(exs, feats, keys[j])))]
max_tokens(exs, feats) ==
  LET keys == token_keys(exs, feats)
  IN [j \in 1..Len(keys) |->
        to_dict(replace(keys[j], "tokens", "max_tokens"),
                MaxSeq(values_of(exs, feats, keys[j])))]

\* The orders and groupings in which CombineGlobally hands n dictionaries
\* to _merge_dicts: a permutation and the shape of the reduction tree.
Shapes == {"flat", "left", "right", "halves"}
Plans(n) == Permutations(1..n) \X Shapes
\* The dictionaries in the order of the list, merged by one call.
DirectPlan == <<<<>>, "flat">>

\* The reduction of the list ds in a tree of the given shape; a partial
\* result is an input of the next call of _merge_dicts.
RECURSIVE Tree(_, _)
Tree(ds, shape) ==
  IF Len(ds) <= 1 \/ shape = "flat" THEN _merge_dicts(ds)
  ELSE CASE shape = "left" ->
              _merge_dicts(<<Tree(SubSeq(ds, 1, Len(ds) - 1), shape),
                             ds[Len(ds)]>>)
         [] shape = "right" ->
              _merge_dicts(<<ds[1], Tree(SubSeq(ds, 2, Len(ds)), shape)>>)
         [] OTHER ->
              _merge_dicts(<<Tree(SubSeq(ds, 1, Len(ds) \div 2), shape),
                             Tree(SubSeq(ds, Len(ds) \div 2 + 1, Len(ds)),
                                  shape)>>)

\* beam.CombineGlobally(_merge_dicts) over the dictionaries ds under a
\* plan; extract_output applies _merge_dicts once more.
CombineGlobally(ds, plan) ==
  LET in == IF plan[1] = <<>> THEN ds
            ELSE [j \in 1..Len(ds) |-> ds[plan[1][j]]]
  IN _merge_dicts(<<Tree(in, plan[2])>>)

\* The dictionaries GetStats.expand hands to merge_stats.
flatten_counts(exs, feats) ==
  example_counts(exs) \o total_tokens(exs, feats) \o max_tokens(exs, feats)

\* GetStats.expand
GetStats(exs, feats, plan) == CombineGlobally(flatten_counts(exs, feats), plan)

----------------------------------------------------------------------------
\* File names inside a task directory.
TfRecord(s, i, n) == <<"tfrecord", s, i, n>>
InfoPath(s) == <<"info", s, 0, 0>>
StatsPath(s) == <<"stats", s, 0, 0>>
Completed == <<"COMPLETED", "", 0, 0>>

\* A file: the run that wrote it and its content.
File(r, d) == [run |-> r, data |-> d]

EmptyDir == [p \in {} |-> 0]

\* A complete cache of task t as run r writes it.
FullCache(t, r) ==
  LET names == {Completed}
         \cup {InfoPath(s) : s \in SplitSet(t)}
         \cup {StatsPath(s) : s \in SplitSet(t)}
         \cup UNION {{TfRecord(s, i, list_shards(t, s)) : i \in shards(t, s)}
                     : s \in SplitSet(t)}
  IN [p \in names |->
        CASE p[1] = "COMPLETED" -> File(r, "")
          [] p[1] = "info" ->
               File(r, _info_dict(IF examples(t, p[2]) = <<>> THEN <<>>
                                  ELSE <<examples(t, p[2])[1]>>,
                                  list_shards(t, p[2])))
          [] p[1] = "stats" ->
               File(r, GetStats(examples(t, p[2]), output_features(t), DirectPlan))
          [] OTHER ->
               File(r, IF p[3] = 0 THEN Len(examples(t, p[2])) ELSE 0)]

\* What an aborted earlier run left of task t: an info file, no marker.
Leftover(t) ==
  [p \in {InfoPath(splits(t)[1])} |-> File(0, EmptyDict)]

VARIABLES
  fs,                \* fs[root][task]: the files of a task directory
  run,               \* number of runs started so far
  status,            \* "idle", "running", "succeeded" or "failed"
  overwrite,         \* the overwrite argument of the current run
  task_cache_dir,    \* task.cache_dir of every task, as the run read it
  output_dirs,       \* the list run_pipeline returned (task directories)
  completion_values, \* per task, the sink outputs its marker waits for
  write_completed,   \* the tasks a COMPLETED write was built for
  emitted,           \* bag of the shards <<task, split, index>> emitted
  registry,          \* seqio.TaskRegistry.names() of this process
  cache_dirs,        \* the global cache directories of this process
  call               \* a function of the script applied on its own

vars == <<fs, run, status, overwrite, task_cache_dir, output_dirs,
          completion_values, write_completed, emitted, registry, cache_dirs,
          call>>

\* task.cache_dir: the first cache directory holding COMPLETED for the task.
RECURSIVE cache_dir(_, _, _)
cache_dir(f, t, dirs) ==
  IF dirs = <<>> THEN None
  ELSE IF Completed \in DOMAIN f[Head(dirs)][t] THEN Head(dirs)
  ELSE cache_dir(f, t, Tail(dirs))

\* No function is applied on its own.
NoCall == [fn |-> "none", args |-> <<>>, done |-> TRUE, out |-> <<>>]

Init ==
  /\ fs = [r \in Roots |-> [t \in Tasks |->
             IF r = AltRoot /\ t \in {"a", "b", "c"} THEN FullCache(t, 0)
             ELSE IF r = OutRoot /\ t \in {"b", "n", "z"} THEN FullCache(t, 0)
             ELSE IF r = OutRoot /\ t = "c" THEN Leftover(t)
             ELSE EmptyDir]]
  /\ run = 0
  /\ status = "idle"
  /\ overwrite = FALSE
  /\ task_cache_dir = [t \in Tasks |-> None]
  /\ output_dirs = <<>>
  /\ completion_values = [t \in Tasks |-> {}]
  /\ write_completed = {}
  /\ emitted = EmptyBag
  /\ registry \in Registries
  /\ cache_dirs \in CacheDirLists
  /\ call = NoCall

----------------------------------------------------------------------------
\* Planning: run_pipeline.

Range(q) == {q[j] : j \in 1..Len(q)}

\* The three sinks of a split.
SinkKinds == {"tfrecord", "info", "stats"}

\* Python's "\Z|".join(patterns)
RECURSIVE join(_, _)
join(sep, strs) ==
  IF strs = <<>> THEN ""
  ELSE IF Len(strs) = 1 THEN strs[1]
  ELSE strs[1] \o sep \o join(sep, Tail(strs))

\* The regular expression r"(%s\Z)" % r"\Z|".join(patterns)
regex(patterns) == "(" \o join("\\Z|", patterns) \o "\\Z)"

\* Python's s[m-1:n]: the characters m..n of s that exist.
slice(s, m, n) ==
  IF m > Len(s) \/ m > n THEN ""
  ELSE SubSeq(s, m, IF n > Len(s) THEN Len(s) ELSE n)

\* The alternatives of a regular expression body, split at every "|".
RECURSIVE alternatives(_)
alternatives(body) ==
  IF \A j \in 1..Len(body) : slice(body, j, j) # "|" THEN <<body>>
  ELSE LET j == CHOOSE j \in 1..Len(body) :
                  /\ slice(body, j, j) = "|"
                  /\ \A i \in 1..(j - 1) : slice(body, i, i) # "|"
       IN <<slice(body, 1, j - 1)>>
            \o alternatives(slice(body, j + 1, Len(body)))

\* A prefix of s matches the sequence p of literals, ".", starred items and
\* end-of-string assertions \Z.
RECURSIVE prefix_match(_, _)
prefix_match(p, s) ==
  LET c == slice(p, 1, 1)
      hit == s # "" /\ (c = "." \/ c = slice(s, 1, 1))
  IN IF p = "" THEN TRUE
     ELSE IF slice(p, 1, 2) = "\\Z"
          THEN s = "" /\ prefix_match(slice(p, 3, Len(p)), s)
     ELSE IF slice(p, 2, 2) = "*"
          THEN \/ prefix_match(slice(p, 3, Len(p)), s)
               \/ hit /\ prefix_match(p, slice(s, 2, Len(s)))
     ELSE hit /\ prefix_match(slice(p, 2, Len(p)), slice(s, 2, Len(s)))

\* re.compile(r).match(s) for a regular expression r that is one group.
match(r, s) ==
  LET alts == alternatives(slice(r, 2, Len(r) - 1))
  IN \E j \in 1..Len(alts) : prefix_match(alts[j], s)

\* task_names with the test of the excluded expression left out.
task_names_no_exclusion(names, included, excluded) ==
  LET included_regex == regex(IF included = <<>> THEN <<".*">> ELSE included)
      keep(t) == match(included_regex, t)
  IN SelectSeq(names, keep)

\* The list task_names run_pipeline loops over: the registered names the
\* included expression matches and the excluded expression does not.
task_names(names, included, excluded) ==
  LET included_regex == regex(IF included = <<>> THEN <<".*">> ELSE included)
      excluded_regex == regex(excluded)
      keep(t) == match(included_regex, t) /\ ~match(excluded_regex, t)
  IN SelectSeq(names, keep)

\* rmtree_called with the comparison of the two directories inverted.
rmtree_wrong_dir(t, tcd, ow) ==
  /\ supports_caching(t)
  /\ ~(tcd # None /\ ~ow)
  /\ tcd # None /\ ow
  /\ tcd # OutRoot

\* rmtree_called for every cache found in the output directory, whatever
\* the overwrite flag.
rmtree_without_overwrite(t, tcd, ow) ==
  /\ supports_caching(t)
  /\ tcd = OutRoot

\* rmtree_called when the output directory is never deleted.
rmtree_never(t, tcd, ow) == FALSE

\* run_pipeline reaches tf.io.gfile.rmtree(output_dir) for task t.
rmtree_called(t, tcd, ow) ==
  /\ supports_caching(t)
  /\ ~(tcd # None /\ ~ow)
  /\ tcd # None /\ ow
  /\ tcd = OutRoot

\* appended without the "continue" of the branch for a cache that lives in
\* another directory.
appended_no_refuse(t, tcd, ow) ==
  /\ supports_caching(t)
  /\ ~(tcd # None /\ ~ow)
  /\ splits(t) # <<>>

\* appended without the check for a task with no splits.
appended_no_splits_check(t, tcd, ow) ==
  /\ supports_caching(t)
  /\ ~(tcd # None /\ ~ow)
  /\ ~(tcd # None /\ ow /\ tcd # OutRoot)

\* appended without the skip of a cached task when overwrite is false.
appended_no_skip(t, tcd, ow) ==
  /\ supports_caching(t)
  /\ ~(tcd # None /\ ow /\ tcd # OutRoot)
  /\ splits(t) # <<>>

\* run_pipeline reaches output_dirs.append(output_dir) for task t.
appended(t, tcd, ow) ==
  /\ supports_caching(t)
  /\ ~(tcd # None /\ ~ow)
  /\ ~(tcd # None /\ ow /\ tcd # OutRoot)
  /\ splits(t) # <<>>

\* completion_list without the output of the stats sink.
completion_list_no_stats(t) == {t} \X SplitSet(t) \X {"tfrecord", "info"}

\* completion_list when the list is not emptied from task to task.
completion_list_not_reset(t) ==
  UNION {{u} \X SplitSet(u) \X SinkKinds : u \in Tasks}

\* The completion_values list run_pipeline builds for a task it caches:
\* the outputs <<task, split, sink>> of the three sinks of every split.
completion_list(t) == {t} \X SplitSet(t) \X SinkKinds

run_pipeline(ow) ==
  /\ status # "running"
  /\ run < MaxRuns
  /\ \E names \in {task_names(registry, <<>>, <<>>)} :
       LET tcd == [t \in Tasks |-> cache_dir(fs, t, cache_dirs)]
           go(t) == t \in Range(names) /\ appended(t, tcd[t], ow)
       IN /\ task_cache_dir' = tcd
          /\ fs' = [fs EXCEPT ![OutRoot] = [t \in Tasks |->
                      IF t \in Range(names) /\ rmtree_called(t, tcd[t], ow)
                      THEN EmptyDir
                      ELSE fs[OutRoot][t]]]
          /\ output_dirs' = SelectSeq(names, go)
          /\ completion_values' =
               [t \in Tasks |-> IF go(t) THEN completion_list(t) ELSE {}]
          /\ write_completed' = {t \in Tasks : go(t)}
  /\ run' = run + 1
  /\ status' = "running"
  /\ overwrite' = ow
  /\ emitted' = EmptyBag
  /\ UNCHANGED <<registry, cache_dirs, call>>

----------------------------------------------------------------------------
\* Execution of the pipeline by the Beam runner.

\* The file p of the output directory of t was written by the current run.
Written(t, p) ==
  /\ p \in DOMAIN fs[OutRoot][t]
  /\ fs[OutRoot][t][p].run = run

\* Writing file p with content d into the output directory of t.
WriteFile(t, p, d) ==
  fs' = [fs EXCEPT ![OutRoot][t] =
           [q \in DOMAIN fs[OutRoot][t] \cup {p} |->
              IF q = p THEN File(run, d) ELSE fs[OutRoot][t][q]]]

\* Every shard of the split went through _emit_examples.
AllEmitted(t, s) == \A i \in shards(t, s) : BagIn(<<t, s, i>>, emitted)

\* The output of a sink is complete.
SinkDone(t, s, k) ==
  CASE k = "tfrecord" ->
         \A i \in shards(t, s) : Written(t, TfRecord(s, i, list_shards(t, s)))
    [] k = "info" -> Written(t, InfoPath(s))
    [] OTHER -> Written(t, StatsPath(s))

\* Every node of the pipeline has run.
PipelineDone ==
  /\ \A t \in Range(output_dirs) : \A s \in SplitSet(t) :
        \A k \in SinkKinds : SinkDone(t, s, k)
  /\ \A t \in write_completed : Written(t, Completed)

unch_plan == <<run, status, overwrite, task_cache_dir, output_dirs,
               completion_values, write_completed, registry, cache_dirs,
               call>>

\* _emit_examples run for a shard once for each of the three sinks.
_emit_examples_per_sink(t, s, i) ==
  /\ status = "running"
  /\ t \in Range(output_dirs)
  /\ s \in SplitSet(t)
  /\ i \in shards(t, s)
  /\ CopiesIn(<<t, s, i>>, emitted) < Cardinality(SinkKinds)
  /\ emitted' = emitted (+) SetToBag({<<t, s, i>>})
  /\ UNCHANGED <<fs, unch_plan>>

\* PreprocessTask._emit_examples for one shard: beam.Create(self.shards)
\* holds every shard index once, and FlatMap runs once per element.
_emit_examples(t, s, i) ==
  /\ status = "running"
  /\ t \in Range(output_dirs)
  /\ s \in SplitSet(t)
  /\ i \in shards(t, s)
  /\ CopiesIn(<<t, s, i>>, emitted) = 0
  /\ emitted' = emitted (+) SetToBag({<<t, s, i>>})
  /\ UNCHANGED <<fs, unch_plan>>

\* Number of records in the partition files of the split written so far.
RecordsWritten(t, s) ==
  LET n == list_shards(t, s)
      cnt(i) == IF Written(t, TfRecord(s, i, n))
                THEN fs[OutRoot][t][TfRecord(s, i, n)].data ELSE 0
  IN SumSeq([j \in 1..n |-> cnt(j - 1)])

\* WriteExampleTfRecord: one partition file of the split, holding c of the
\* reshuffled records; the last file written holds what is left.
WriteExampleTfRecord(t, s, i, c) ==
  LET n == list_shards(t, s)
      left == Len(examples(t, s)) - RecordsWritten(t, s)
      last == \A j \in shards(t, s) \ {i} : Written(t, TfRecord(s, j, n))
  IN /\ status = "running"
     /\ t \in Range(output_dirs)
     /\ s \in SplitSet(t)
     /\ i \in shards(t, s)
     /\ AllEmitted(t, s)
     /\ ~Written(t, TfRecord(s, i, n))
     /\ c \in 0..left
     /\ last => c = left
     /\ WriteFile(t, TfRecord(s, i, n), c)
     /\ UNCHANGED <<unch_plan, emitted>>

\* GetInfo | WriteJson: the info file of the split, from a sample of one.
WriteInfo(t, s) ==
  /\ status = "running"
  /\ t \in Range(output_dirs)
  /\ s \in SplitSet(t)
  /\ AllEmitted(t, s)
  /\ ~Written(t, InfoPath(s))
  /\ \E sample \in {SubSeq(examples(t, s), j, j) : j \in 1..Len(examples(t, s))}
                  \cup (IF examples(t, s) = <<>> THEN {<<>>} ELSE {}) :
        WriteFile(t, InfoPath(s), _info_dict(sample, list_shards(t, s)))
  /\ UNCHANGED <<unch_plan, emitted>>

\* The outcomes <<task, split, dictionary>> of GetStats for the records of
\* every split, over all plans.
merge_stats(t, s) ==
  {GetStats(examples(t, s), output_features(t), plan) :
     plan \in Plans(Len(flatten_counts(examples(t, s), output_features(t))))}
MergeStats ==
  UNION {{<<t, s, d>> : d \in merge_stats(t, s)} :
           t \in Tasks, s \in {"train", "validation"}}

\* GetStats | WriteJson: the stats file of the split, merged under some
\* plan; an AssertionError of the merge fails the pipeline.
WriteStats(t, s) ==
  /\ status = "running"
  /\ t \in Range(output_dirs)
  /\ s \in SplitSet(t)
  /\ AllEmitted(t, s)
  /\ ~Written(t, StatsPath(s))
  /\ \E o \in MergeStats :
       /\ o[1] = t
       /\ o[2] = s
       /\ IF o[3] = AssertionError
          THEN /\ status' = "failed"
               /\ emitted' = EmptyBag
               /\ UNCHANGED <<fs, run, overwrite, task_cache_dir, output_dirs,
                              completion_values, write_completed, registry,
                              cache_dirs, call>>
          ELSE /\ WriteFile(t, StatsPath(s), o[3])
               /\ UNCHANGED <<unch_plan, emitted>>

\* The flatten of completion_values | Filter | WriteToText(COMPLETED).
WriteCompleted(t) ==
  /\ status = "running"
  /\ t \in write_completed
  /\ ~Written(t, Completed)
  /\ \A c \in completion_values[t] : SinkDone(c[1], c[2], c[3])
  /\ WriteFile(t, Completed, "")
  /\ UNCHANGED <<unch_plan, emitted>>

\* The runner finishes the pipeline.
PipelineSucceeds ==
  /\ status = "running"
  /\ PipelineDone
  /\ status' = "succeeded"
  /\ emitted' = EmptyBag
  /\ UNCHANGED <<fs, run, overwrite, task_cache_dir, output_dirs,
                 completion_values, write_completed, registry, cache_dirs,
                 call>>

\* A step of the pipeline fails (or the run is aborted): nothing more runs.
PipelineFails ==
  /\ status = "running"
  /\ ~PipelineDone
  /\ status' = "failed"
  /\ emitted' = EmptyBag
  /\ UNCHANGED <<fs, run, overwrite, task_cache_dir, output_dirs,
                 completion_values, write_completed, registry, cache_dirs,
                 call>>

Next ==
  \/ \E ow \in BOOLEAN : run_pipeline(ow)
  \/ \E t \in Tasks, s \in {"train", "validation"}, i \in 0..1 :
        _emit_examples(t, s, i)
  \/ \E t \in Tasks, s \in {"train", "validation"}, i \in 0..1, c \in 0..2 :
        WriteExampleTfRecord(t, s, i, c)
  \/ \E t \in Tasks, s \in {"train", "validation"} : WriteInfo(t, s)
  \/ \E t \in Tasks, s \in {"train", "validation"} : WriteStats(t, s)
  \/ \E t \in Tasks : WriteCompleted(t)
  \/ PipelineSucceeds
  \/ PipelineFails

Spec == Init /\ [][Next]_vars

\* The runner keeps executing the steps of a running pipeline that are
\* enabled; whether a step fails is not up to it.
RunnerStep ==
  \/ \E t \in Tasks, s \in {"train", "validation"}, i \in 0..1 :
        _emit_examples(t, s, i)
  \/ \E t \in Tasks, s \in {"train", "validation"}, i \in 0..1, c \in 0..2 :
        WriteExampleTfRecord(t, s, i, c)
  \/ \E t \in Tasks, s \in {"train", "validation"} : WriteInfo(t, s)
  \/ \E t \in Tasks, s \in {"train", "validation"} : WriteStats(t, s)
  \/ \E t \in Tasks : WriteCompleted(t)
  \/ PipelineSucceeds

\* The processes whose registry holds the task with a split without records.
InitEmptySplit == Init /\ registry = <<"a">>

FairSpec == InitEmptySplit /\ [][Next]_vars /\ WF_vars(RunnerStep)

----------------------------------------------------------------------------
\* The functions of the script applied on their own, to arguments drawn
\* from bounded sets; no pipeline runs.

\* Longest list of examples a function is applied to.
MaxExamples == 3

Seqs(S, n) == UNION {[1..m -> S] : m \in 0..n}

\* Declared output features, and the values an example has for them.
FeatLists == {<<"f">>, <<"tokens">>, <<"f", "f_max">>}
Values == {Int32(<<2, 2, 1>>), Int32(<<2, 1, 1>>), Int32(<<2, 2, 2>>), Bytes}
Examples(feats) ==
  IF Len(feats) = 1 THEN [Range(feats) -> Values]
  ELSE [Range(feats) -> {Int32(<<2, 2, 1>>), Int32(<<2, 2, 2>>)}]

\* No pipeline was ever planned.
Quiet ==
  /\ fs = [r \in Roots |-> [t \in Tasks |-> EmptyDir]]
  /\ run = 0
  /\ status = "idle"
  /\ overwrite = FALSE
  /\ task_cache_dir = [t \in Tasks |-> None]
  /\ output_dirs = <<>>
  /\ completion_values = [t \in Tasks |-> {}]
  /\ write_completed = {}
  /\ emitted = EmptyBag
  /\ registry = <<>>
  /\ cache_dirs = <<>>

unch_quiet == <<fs, run, status, overwrite, task_cache_dir, output_dirs,
                completion_values, write_completed, emitted, registry,
                cache_dirs>>

Args(fn, args) == [fn |-> fn, args |-> args, done |-> FALSE, out |-> <<>>]

StatsCalls ==
  {Args("GetStats", <<exs, feats>>) :
     exs \in UNION {Seqs(Examples(fl), MaxExamples) : fl \in FeatLists},
     feats \in FeatLists}

\* Longest list of include or exclude patterns.
MaxPatterns == 2

\* Registered names in registry order, and the patterns of the two lists.
NameLists == {<<"a", "a_2", "b">>, <<"b", "a_2", "a">>}
Patterns == {"a*", "a.*", "a_2", "b"}

SelectionCalls ==
  {Args("task_names", <<names, included, excluded>>) :
     names \in NameLists,
     included \in Seqs(Patterns, MaxPatterns),
     excluded \in Seqs(Patterns, MaxPatterns)}

\* Most shards of a split, and the largest record cap.
MaxShards == 3
MaxCap == 4

\* The raw records of a shard, by their position in the shard.
Streams == {<<>>, <<1>>, <<1, 2>>}

EmitCalls ==
  {Args("_emit_examples", <<streams, cap>>) :
     streams \in Seqs(Streams, MaxShards) \ {<<>>}, cap \in 0..MaxCap}

\* The values of the feature of the examples GetInfo samples from.
InfoValues == {Int32(<<2, 2, 1>>), Int32(<<2>>), Bytes}

InfoCalls ==
  {Args("GetInfo", <<exs, num_shards>>) :
     exs \in Seqs([{"f"} -> InfoValues], MaxExamples) \ {<<>>},
     num_shards \in 1..MaxShards}

LibInit ==
  /\ Quiet
  /\ call \in {c \in StatsCalls :
                 \A j \in DOMAIN c.args[1] :
                   DOMAIN c.args[1][j] = Range(c.args[2])}
              \cup SelectionCalls \cup EmitCalls \cup InfoCalls

\* GetStats applied to a list of examples.
ApplyGetStats ==
  /\ call.fn = "GetStats"
  /\ ~call.done
  /\ call' = [call EXCEPT !.done = TRUE,
                          !.out = GetStats(call.args[1], call.args[2],
                                           DirectPlan)]
  /\ UNCHANGED unch_quiet

\* The selection at the head of run_pipeline.
ApplyTaskNames ==
  /\ call.fn = "task_names"
  /\ ~call.done
  /\ call' = [call EXCEPT !.done = TRUE,
                          !.out = task_names(call.args[1], call.args[2],
                                             call.args[3])]
  /\ UNCHANGED unch_quiet

\* _emit_examples applied to every shard of a split.
ApplyEmitExamples ==
  /\ call.fn = "_emit_examples"
  /\ ~call.done
  /\ LET streams == call.args[1]
     IN call' = [call EXCEPT
                   !.done = TRUE,
                   !.out = [i \in 1..Len(streams) |->
                              read_shard(streams[i], call.args[2],
                                         Len(streams))]]
  /\ UNCHANGED unch_quiet

\* GetInfo applied to the examples of a split: Sample.FixedSizeGlobally(1)
\* picks any one of them, and _info_dict describes it.
ApplyGetInfo ==
  /\ call.fn = "GetInfo"
  /\ ~call.done
  /\ \E j \in DOMAIN call.args[1] :
       call' = [call EXCEPT
                  !.done = TRUE,
                  !.out = [sample |-> j,
                           info |-> _info_dict(<<call.args[1][j]>>,
                                               call.args[2])]]
  /\ UNCHANGED unch_quiet

LibNext ==
  \/ ApplyGetStats
  \/ ApplyTaskNames
  \/ ApplyEmitExamples
  \/ ApplyGetInfo

LibSpec == LibInit /\ [][LibNext]_vars

----------------------------------------------------------------------------
\* Properties.

Selected == Range(registry)
Cached == Range(output_dirs)

\* The partition, info and stats files a complete cache of t consists of.
ArtifactNames(t) ==
  {InfoPath(s) : s \in SplitSet(t)}
    \cup {StatsPath(s) : s \in SplitSet(t)}
    \cup UNION {{TfRecord(s, i, list_shards(t, s)) : i \in shards(t, s)}
                : s \in SplitSet(t)}

\* C1: within a run, the COMPLETED marker of a task the run (re)computes is
\* written only when the record, info and stats sinks of every split of the
\* task have finished; a run in which one of them has not finished (it
\* failed, or the run was aborted) has not written the marker.
C1_MarkerAfterAllSinks ==
  \A t \in Cached :
    Written(t, Completed) =>
      \A s \in SplitSet(t) : \A k \in SinkKinds : SinkDone(t, s, k)

\* C1 witness: the marker of the two-split task was written by this run.
C1_Witness ==
  /\ "a" \in Cached
  /\ Len(splits("a")) = 2
  /\ Written("a", Completed)

\* C2: whenever COMPLETED exists in the output directory of a task, every
\* partition file, info file and stats file of the task exists there and
\* was written by the run that wrote the marker.
C2_MarkerMeansComplete ==
  \A t \in Tasks :
    Completed \in DOMAIN fs[OutRoot][t] =>
      \A p \in ArtifactNames(t) :
        /\ p \in DOMAIN fs[OutRoot][t]
        /\ fs[OutRoot][t][p].run = fs[OutRoot][t][Completed].run

\* The step is a call of run_pipeline.
Planning == run' = run + 1

\* C3 as stated: for every selected task whose discovered cache directory
\* is the output directory, a run with overwrite deletes the directory
\* while planning (before any sink runs), and when the run has succeeded
\* every partition file of the task was written by this run.
C3_Original ==
  [][\A t \in Selected :
       (overwrite' /\ task_cache_dir'[t] = OutRoot) =>
         /\ Planning => fs'[OutRoot][t] = EmptyDir
         /\ status' = "succeeded" =>
              \A s \in SplitSet(t) : \A i \in shards(t, s) :
                LET p == TfRecord(s, i, list_shards(t, s))
                IN p \in DOMAIN fs'[OutRoot][t] /\ fs'[OutRoot][t][p].run = run'
    ]_vars

\* C3 amended: the same for every selected task that supports caching.
C3_OverwriteReplaces ==
  [][\A t \in Selected :
       (supports_caching(t) /\ overwrite' /\ task_cache_dir'[t] = OutRoot) =>
         /\ Planning => fs'[OutRoot][t] = EmptyDir
         /\ status' = "succeeded" =>
              \A s \in SplitSet(t) : \A i \in shards(t, s) :
                LET p == TfRecord(s, i, list_shards(t, s))
                IN p \in DOMAIN fs'[OutRoot][t] /\ fs'[OutRoot][t][p].run = run'
    ]_vars

\* C3 witness: a second run with overwrite succeeded for the two-shard task
\* whose cache the first run had written into the output directory.
C3_Witness ==
  /\ status = "succeeded"
  /\ overwrite
  /\ run = 2
  /\ "b" \in Cached
  /\ task_cache_dir["b"] = OutRoot

\* Nothing of task t is touched or built by the step.
Untouched(t) ==
  /\ fs'[OutRoot][t] = fs[OutRoot][t]
  /\ fs'[AltRoot][t] = fs[AltRoot][t]
  /\ t \notin Range(output_dirs')
  /\ completion_values'[t] = {}
  /\ t \notin write_completed'
  /\ \A e \in BagToSet(emitted') : e[1] # t

\* C4: a selected task whose cache was discovered in a directory other than
\* the output directory, in a run with overwrite: no step of the run
\* (planning included) deletes or changes a file of the task in either
\* directory, no sub-pipeline or marker write exists for it, and it is not
\* in the returned list.
C4_RefuseIsFrame ==
  [][\A t \in Selected :
       (overwrite' /\ task_cache_dir'[t] \notin {None, OutRoot}) => Untouched(t)
    ]_vars

\* C4 witness: a run with overwrite is under way while task c, cached in
\* the other directory, has old files in the output directory.
C4_Witness ==
  /\ status = "running"
  /\ overwrite
  /\ "c" \in Selected
  /\ task_cache_dir["c"] = AltRoot
  /\ fs[OutRoot]["c"] # EmptyDir
  /\ "d" \in Cached /\ Written("d", InfoPath("train"))

\* C5: a selected task that does not support caching or has no splits is
\* skipped whatever its discovered cache directory and the overwrite flag:
\* no step of a run deletes or changes a file of it, builds a sub-pipeline
\* or a marker write for it, or returns it.
C5_NoCachingNoSplitsIsFrame ==
  [][\A t \in Selected :
       (~supports_caching(t) \/ splits(t) = <<>>) => Untouched(t)
    ]_vars

\* C6: a selected task with a discovered cache directory, in a run without
\* overwrite, is skipped whether or not that directory is the output
\* directory: it is not returned, nothing of it is deleted, and no record,
\* info, stats or marker write is built or run for it.
C6_CachedIsSkipped ==
  [][\A t \in Selected :
       (~overwrite' /\ task_cache_dir'[t] # None) => Untouched(t)
    ]_vars

\* C6 witness: a run without overwrite is under way, task d is skipped since
\* its cache is in the output directory, and task c is skipped since its
\* cache is in the other directory.
C6_Witness ==
  /\ status = "running"
  /\ ~overwrite
  /\ {"c", "d"} \subseteq Selected
  /\ task_cache_dir["d"] = OutRoot
  /\ task_cache_dir["c"] = AltRoot

\* The output directory of t holds COMPLETED and the partition, info and
\* stats files of every split, and nothing else.
ExactlyTheArtifacts(t) ==
  DOMAIN fs[OutRoot][t] = ArtifactNames(t) \cup {Completed}

\* The info file of the split records n as its num_shards.
InfoRecordsShards(t, s, n) ==
  LET d == fs[OutRoot][t][InfoPath(s)].data
  IN "num_shards" \in DOMAIN d /\ d["num_shards"] = n

Recomputed(t) ==
  /\ supports_caching(t)
  /\ Len(splits(t)) >= 1
  /\ \/ task_cache_dir[t] = None
     \/ overwrite /\ task_cache_dir[t] = OutRoot

\* C8: the returned list holds exactly the selected tasks that support
\* caching, have a split and have either no discovered cache or, with
\* overwrite, one in the output directory; each once, in registry order,
\* and each with a marker write built for it.
C8_ReturnedDirs ==
  status # "idle" =>
    /\ output_dirs = SelectSeq(registry, Recomputed)
    /\ Cached \subseteq write_completed

\* C8 witness: a run returned two tasks and left two out.
C8_Witness ==
  /\ Len(output_dirs) = 2
  /\ Len(registry) = 4

\* C9: the cache of t in the output directory was completed by the
\* previous run, the output root is a cache-discovery directory and the
\* present run is without overwrite: the run does not return t, builds
\* nothing for t and no step of it changes a file of t.
C9_SecondRunIsNoOp ==
  [][\A t \in Selected :
       ( /\ ~overwrite'
         /\ OutRoot \in Range(cache_dirs)
         /\ Completed \in DOMAIN fs[OutRoot][t]
         /\ fs[OutRoot][t][Completed].run >= 1
         /\ fs[OutRoot][t][Completed].run = run' - 1 )
       => Untouched(t)
    ]_vars

\* C9 witness: the second run, without overwrite like the first, has
\* finished; the first had cached tasks c and d.
C9_Witness ==
  /\ run = 2
  /\ status = "succeeded"
  /\ ~overwrite
  /\ OutRoot \in Range(cache_dirs)
  /\ output_dirs = <<>>
  /\ \A t \in {"c", "d"} :
       /\ t \in Selected
       /\ Completed \in DOMAIN fs[OutRoot][t]
       /\ fs[OutRoot][t][Completed].run = 1

\* The tasks with a split that yields no record.
HasEmptySplit(t) == \E s \in SplitSet(t) : examples(t, s) = <<>>

\* The info file of the split is the empty mapping and its stats file has
\* examples = 0, both written by this run.
EmptySplitFiles(t, s) ==
  /\ Written(t, InfoPath(s))
  /\ DOMAIN fs[OutRoot][t][InfoPath(s)].data = {}
  /\ Written(t, StatsPath(s))
  /\ fs[OutRoot][t][StatsPath(s)].data["examples"] = 0

\* C10: a running pipeline that (re)computes a task with a split without
\* records eventually, unless the run fails, has written the marker of the
\* task, the info file of that split being the empty mapping and its stats
\* file having examples = 0.
C10_EmptySplitCompletes ==
  \A t \in {u \in Tasks : HasEmptySplit(u)} :
    (status = "running" /\ t \in Cached)
      ~> \/ status = "failed"
         \/ /\ Written(t, Completed)
            /\ \A s \in SplitSet(t) :
                 examples(t, s) = <<>> => EmptySplitFiles(t, s)

\* C10 witness: the marker of the task with the empty split is written,
\* next to the info and stats files of that split.
C10_Witness ==
  /\ HasEmptySplit("a")
  /\ "a" \in Cached
  /\ Written("a", Completed)
  /\ EmptySplitFiles("a", "validation")
  /\ status = "succeeded"

\* The number of elements greater than 1 of feature f in example ex.
Above1(ex, f) == Cardinality({i \in DOMAIN ex[f].val : ex[f].val[i] > 1})

\* C11: for every declared output feature f, whatever its name, whose
\* values are integer arrays, the stats dictionary of a split with records
\* maps f followed by "_tokens" to the sum over the records of the number of
\* elements of f greater than 1 and f followed by "_max_tokens" to the
\* maximum of that number over the records, and "examples" to the number of
\* records.
C11_StatsKeys ==
  (call.fn = "GetStats" /\ call.done /\ call.out # AssertionError
     /\ call.args[1] # <<>>) =>
    LET exs == call.args[1]
        per(f) == [j \in DOMAIN exs |-> Above1(exs[j], f)]
    IN /\ call.out["examples"] = Len(exs)
       /\ \A f \in Range(call.args[2]) :
            (\A j \in DOMAIN exs : exs[j][f].dtype = "int32") =>
              /\ f \o "_tokens" \in DOMAIN call.out
              /\ call.out[f \o "_tokens"] = SumSeq(per(f))
              /\ f \o "_max_tokens" \in DOMAIN call.out
              /\ call.out[f \o "_max_tokens"] = MaxSeq(per(f))

\* The stats dictionary of the three records [2,2,1], [2,1,1], [2,2,2] of
\* a feature named f has f_tokens = 6 and f_max_tokens = 3.
StatsExample ==
  /\ call.fn = "GetStats" /\ call.done
  /\ call.args[2] = <<"f">>
  /\ call.args[1] = <<[f |-> Int32(<<2, 2, 1>>)], [f |-> Int32(<<2, 1, 1>>)],
                       [f |-> Int32(<<2, 2, 2>>)]>>
  /\ call.out = [examples |-> 3, f_tokens |-> 6, f_max_tokens |-> 3]

\* The full name t matches the pattern p.
FullMatch(p, t) == prefix_match(p \o "\\Z", t)

KeysOf(ds) == UNION {DOMAIN ds[j] : j \in 1..Len(ds)}

\* Two of the three statistics sub-aggregates of the split produce the
\* same key.
Collides(t, s) ==
  LET c == KeysOf(example_counts(examples(t, s)))
      tot == KeysOf(total_tokens(examples(t, s), output_features(t)))
      mx == KeysOf(max_tokens(examples(t, s), output_features(t)))
  IN c \cap tot # {} \/ c \cap mx # {} \/ tot \cap mx # {}

\* The splits with such a collision.
CollidingSplits ==
  {ts \in Tasks \X {"train", "validation"} :
     ts[2] \in SplitSet(ts[1]) /\ Collides(ts[1], ts[2])}

\* C13: when two of the three statistics sub-aggregates of a split produce
\* the same key, the merge raises an AssertionError under every order and
\* grouping, the run writes no stats file for the split, and it does not
\* write the COMPLETED marker of the task.
C13_CollisionFails ==
  \A ts \in CollidingSplits :
    ts[1] \in Cached =>
      /\ \A o \in MergeStats :
           (o[1] = ts[1] /\ o[2] = ts[2]) => o[3] = AssertionError
      /\ ~Written(ts[1], StatsPath(ts[2]))
      /\ ~Written(ts[1], Completed)

\* C13 witness: the run has failed after the records and the info file of
\* the split whose features f and f_max both produce the key f_max_tokens
\* were written.
C13_Witness ==
  /\ "x" \in Cached
  /\ <<"x", "train">> \in CollidingSplits
  /\ status = "failed"
  /\ Written("x", InfoPath("train"))
  /\ Written("x", TfRecord("train", 0, 1))

\* The list q in the order p, a permutation of its indices.
Permuted(q, p) == [j \in 1..Len(q) |-> q[p[j]]]

\* Combining the partial results of a list cut in two gives the result of
\* the whole list, for the sum and for the max.
TreeOfTwo(v) ==
  \A j \in 1..(Len(v) - 1) :
    LET left == SubSeq(v, 1, j)
        right == SubSeq(v, j + 1, Len(v))
    IN /\ SumSeq(<<SumSeq(left), SumSeq(right)>>) = SumSeq(v)
       /\ SumSeq(<<SumSeq(right), SumSeq(left)>>) = SumSeq(v)
       /\ MaxSeq(<<MaxSeq(left), MaxSeq(right)>>) = MaxSeq(v)
       /\ MaxSeq(<<MaxSeq(right), MaxSeq(left)>>) = MaxSeq(v)

\* C14: the stats dictionary of a split is the same for every arrival
\* order of the records and for every order and shape of the tree in which
\* _merge_dicts combines the dictionaries (partial results included), and
\* the per-key sum and max are the same for every cut of their values.
C14_OrderIndependent ==
  (call.fn = "GetStats" /\ call.done) =>
    LET exs == call.args[1]
        feats == call.args[2]
        keys == token_keys(exs, feats)
    IN /\ \A p \in Permutations(1..Len(exs)) :
            GetStats(Permuted(exs, p), feats, DirectPlan) = call.out
       /\ \A plan \in Plans(Len(flatten_counts(exs, feats))) :
            GetStats(exs, feats, plan) = call.out
       /\ \A j \in 1..Len(keys) : TreeOfTwo(values_of(exs, feats, keys[j]))

\* C14 witness: the stats of three records with three different counts.
C14_Witness ==
  /\ call.fn = "GetStats" /\ call.done
  /\ call.args[2] = <<"f">>
  /\ call.args[1] = <<[f |-> Int32(<<2, 2, 2>>)], [f |-> Int32(<<2, 2, 1>>)],
                       [f |-> Int32(<<2, 1, 1>>)]>>
  /\ call.out = [examples |-> 3, f_tokens |-> 6, f_max_tokens |-> 3]

\* The number of records _emit_examples emitted for the split.
EmittedRecords(t, s) ==
  SumSeq([j \in 1..list_shards(t, s) |->
            CopiesIn(<<t, s, j - 1>>, emitted) * Len(get_dataset(t, s, j - 1))])

\* C15: when a run succeeds, every shard index 0..N-1 of every split it
\* cached went through _emit_examples exactly once (once per shard, not
\* once per sink) and no other index did, and the records in the partition
\* files of the split, the examples value of its stats file and the records
\* emitted over its shards are the same number.
C15_EachShardOnce ==
  [][status' = "succeeded" =>
       \A t \in Cached : \A s \in SplitSet(t) :
         /\ \A i \in 0..(list_shards(t, s) - 1) :
              CopiesIn(<<t, s, i>>, emitted) = 1
         /\ \A e \in BagToSet(emitted) :
              (e[1] = t /\ e[2] = s) => e[3] \in 0..(list_shards(t, s) - 1)
         /\ RecordsWritten(t, s) = EmittedRecords(t, s)
         /\ fs[OutRoot][t][StatsPath(s)].data["examples"] = EmittedRecords(t, s)
    ]_vars

\* C15 witness: every node of a pipeline that cached the two-shard task has
\* run; both shards were emitted and their two records written.
C15_Witness ==
  /\ status = "running"
  /\ PipelineDone
  /\ "b" \in Cached
  /\ CopiesIn(<<"b", "train", 0>>, emitted) = 1
  /\ CopiesIn(<<"b", "train", 1>>, emitted) = 1
  /\ RecordsWritten("b", "train") = 2

\* The raw records read of every shard of the split, in total.
TotalRead == SumSeq([i \in 1..Len(call.out) |-> Len(call.out[i])])

\* With a cap, the shard with stream ds read exactly k records, restarting
\* the stream when it ended; without one, it read its stream once.
ReadOfShard(ds, read, cap, k) ==
  IF cap > 0
  THEN ds # <<>> =>
         /\ Len(read) = k
         /\ \A j \in 1..k : read[j] = ds[((j - 1) % Len(ds)) + 1]
  ELSE read = ds

\* C16 as stated: with a positive cap C and N shards every non-empty shard
\* reads exactly floor(C / N) raw records, repeating its stream from the
\* start when it holds fewer; the records read of the split total
\* N * floor(C / N), at most C, and 0 when C < N; without a cap every shard
\* reads each of its records once.
C16_Original ==
  (call.fn = "_emit_examples" /\ call.done) =>
    LET streams == call.args[1]
        C == call.args[2]
        N == Len(streams)
    IN /\ \A i \in 1..N : ReadOfShard(streams[i], call.out[i], C, C \div N)
       /\ C > 0 =>
            /\ TotalRead = N * (C \div N)
            /\ TotalRead <= C
            /\ C < N => TotalRead = 0

\* C16 amended: the total is floor(C / N) times the number of shards that
\* hold a record, which is at most N * floor(C / N) and at most C.
C16_PerShardCap ==
  (call.fn = "_emit_examples" /\ call.done) =>
    LET streams == call.args[1]
        C == call.args[2]
        N == Len(streams)
        E == Cardinality({i \in 1..N : streams[i] # <<>>})
    IN /\ \A i \in 1..N : ReadOfShard(streams[i], call.out[i], C, C \div N)
       /\ C > 0 =>
            /\ TotalRead = E * (C \div N)
            /\ TotalRead <= N * (C \div N)
            /\ TotalRead <= C
            /\ C < N => TotalRead = 0

\* C16 witness: with cap 4 and two shards, the shard with one record read
\* it twice and the shard with two records read each once.
C16_Witness ==
  /\ call.fn = "_emit_examples" /\ call.done
  /\ call.args = <<<<<<1>>, <<1, 2>>>>, 4>>
  /\ call.out = <<<<1, 1>>, <<1, 2>>>>

\* The step is a node of the sub-pipeline of task u.
StepOf(u) ==
  \/ \E s \in {"train", "validation"}, i \in 0..1 : _emit_examples(u, s, i)
  \/ \E s \in {"train", "validation"}, i \in 0..1, c \in 0..2 :
        WriteExampleTfRecord(u, s, i, c)
  \/ \E s \in {"train", "validation"} : WriteInfo(u, s)
  \/ \E s \in {"train", "validation"} : WriteStats(u, s)
  \/ WriteCompleted(u)

\* C17: the completion set of a task the run caches holds exactly the
\* 3 * |splits| sink outputs of that task and none of another task; once
\* its own sinks are done its COMPLETED write can run, whatever the sinks
\* of other tasks have done; and a file of its output directory is changed
\* by nodes of its own sub-pipeline and by its own planning only, never by
\* the planning or the writes of another task.
C17_TaskIndependence ==
  [][\A t \in Tasks :
       /\ t \in Cached =>
            /\ completion_values[t] = {t} \X SplitSet(t) \X SinkKinds
            /\ Cardinality(completion_values[t]) = 3 * Len(splits(t))
            /\ ( /\ status = "running"
                 /\ ~Written(t, Completed)
                 /\ \A s \in SplitSet(t) : \A k \in SinkKinds :
                      SinkDone(t, s, k) )
               => ENABLED WriteCompleted(t)
       /\ fs'[OutRoot][t] # fs[OutRoot][t] =>
            IF Planning
            THEN rmtree_called(t, task_cache_dir'[t], overwrite')
            ELSE StepOf(t) /\ \A u \in Cached \ {t} : ~StepOf(u)
    ]_vars

\* C17 witness: tasks c and d are cached by one run; every sink of d is
\* done and its marker can be written while no sink of c has run.
C17_Witness ==
  /\ status = "running"
  /\ {"c", "d"} \subseteq Cached
  /\ \A k \in SinkKinds : SinkDone("d", "train", k)
  /\ \A k \in SinkKinds : ~SinkDone("c", "train", k)
  /\ ~Written("d", Completed)
  /\ ENABLED WriteCompleted("d")

\* The feature names of an example with the dtype and rank of each.
Schema(ex) == [k \in DOMAIN ex |-> <<ex[k].dtype, Len(ex[k].shape)>>]

OverwriteFailed(t) ==
  /\ status = "failed"
  /\ overwrite
  /\ supports_caching(t)
  /\ task_cache_dir[t] = OutRoot
  /\ ~Written(t, Completed)

\* The planning step of a run with overwrite empties the output directory
\* of t, marker included, and no file of any task is written by the new
\* run at that point.
DeletedWhilePlanning(t) ==
  (Planning /\ supports_caching(t) /\ overwrite'
     /\ task_cache_dir'[t] = OutRoot) =>
    /\ fs'[OutRoot][t] = EmptyDir
    /\ \A u \in Tasks : \A p \in DOMAIN fs'[OutRoot][u] :
         fs'[OutRoot][u][p].run # run'

\* C19 as stated: the deletion of an overwrite happens while run_pipeline
\* plans, before any sink runs, and takes the old marker with the old
\* files; when the run then fails before the new marker of the task is
\* written, the output directory has no COMPLETED and a later run sees the
\* task as uncached.
C19_Original ==
  [][\A t \in Selected :
       /\ DeletedWhilePlanning(t)
       /\ OverwriteFailed(t) =>
            /\ Completed \notin DOMAIN fs[OutRoot][t]
            /\ Planning => task_cache_dir'[t] = None
    ]_vars

\* C19 amended: a later run does not find the task cached in the output
\* directory; it sees the task as uncached unless another cache-discovery
\* directory holds a complete cache of it.
C19_OverwriteLosesCache ==
  [][\A t \in Selected :
       /\ DeletedWhilePlanning(t)
       /\ OverwriteFailed(t) =>
            /\ Completed \notin DOMAIN fs[OutRoot][t]
            /\ Planning =>
                 /\ task_cache_dir'[t] # OutRoot
                 /\ task_cache_dir'[t] = None
                      \/ /\ task_cache_dir'[t] \in Range(cache_dirs)
                         /\ Completed \in DOMAIN fs[task_cache_dir'[t]][t]
    ]_vars

\* C19 witness: the first run, with overwrite, deleted the complete cache
\* of the two-shard task in the output directory and failed; the second
\* run has started and the directory still has no marker.
C19_Witness ==
  /\ run = 2
  /\ "b" \in Selected
  /\ Completed \notin DOMAIN fs[OutRoot]["b"]
  /\ \A p \in DOMAIN fs[OutRoot]["b"] : fs[OutRoot]["b"][p].run = 1
  /\ fs[OutRoot]["b"] # EmptyDir
  /\ status = "running"

====
